---- MODULE Spec2Model ----
(***************************************************************************)
(* UtteranceEncoderNM.forward                                              *)
(* (nemo/collections/nlp/nm/non_trainables/dialogue_state_tracking/        *)
(*  utterance_encoder_nm.py).                                              *)
(*                                                                         *)
(* A Python str is a sequence of character codes (ASCII), so that          *)
(* str.strip, str.lower, str.join and str.split are computed character by  *)
(* character.  A history entry is a pair <<tag, text>>.  A tensor is the   *)
(* nested sequence of its elements.                                        *)
(***************************************************************************)
EXTENDS Integers, Sequences, FiniteSets, TLC

\* Bound of the model: the number of forward calls made on one history object.
MaxCalls == 2

(***************************************************************************)
(* Python str primitives                                                   *)
(***************************************************************************)

\* str.isspace on one ASCII character: \t \n \v \f \r, FS GS RS US, space.
isspace(c) == c \in ((9..13) \cup (28..32))

\* A variant of lower that leaves every character as it is.
lower_identity(s) == s

\* str.lower on ASCII text: 'A'..'Z' move to 'a'..'z', the rest stays.
lower(s) == [i \in 1..Len(s) |-> IF s[i] \in 65..90 THEN s[i] + 32 ELSE s[i]]

RECURSIVE lstrip(_)
\* str.lstrip(): drop the leading whitespace.
lstrip(s) == IF s # <<>> /\ isspace(Head(s)) THEN lstrip(Tail(s)) ELSE s

RECURSIVE rstrip(_)
\* str.rstrip(): drop the trailing whitespace.
rstrip(s) ==
    IF s # <<>> /\ isspace(s[Len(s)]) THEN rstrip(SubSeq(s, 1, Len(s) - 1)) ELSE s

\* str.strip(): drop the whitespace of both ends.
strip(s) == rstrip(lstrip(s))

RECURSIVE join(_, _)
\* sep.join(parts): the parts with sep between each two neighbours.
join(sep, parts) ==
    IF parts = <<>> THEN <<>>
    ELSE IF Len(parts) = 1 THEN parts[1]
    ELSE parts[1] \o sep \o join(sep, Tail(parts))

RECURSIVE takeWord(_)
\* The longest prefix of s without whitespace.
takeWord(s) ==
    IF s = <<>> \/ isspace(Head(s)) THEN <<>> ELSE <<Head(s)>> \o takeWord(Tail(s))

RECURSIVE split(_)
\* str.split(): the maximal runs of non-whitespace characters, in order.
split(s) ==
    LET t == lstrip(s)
        w == takeWord(t)
    IN IF t = <<>> THEN <<>>
       ELSE <<w>> \o split(SubSeq(t, Len(w) + 1, Len(t)))

(***************************************************************************)
(* The texts and vocabularies the calls are made with                      *)
(***************************************************************************)

\* ""
U_empty == <<>>
\* " "
U_blank == <<32>>
\* " A"
U_A == <<32, 65>>
\* "a\tB "
U_aB == <<97, 9, 66, 32>>
\* "; Z"
U_semiZ == <<59, 32, 90>>

\* The texts of the turns of a history the caller starts with.
Utterances == {U_empty, U_blank, U_A, U_aB, U_semiZ}

\* The user_uttr and sys_uttr arguments a caller passes.
UserUtterances == {U_empty, U_A, U_semiZ}
SysUtterances == {U_blank, U_aB, U_A}

Tags == {"sys", "user"}

\* The histories a caller starts with: empty, or one turn.
InitHistories == {<<>>} \cup {<< <<t, x>> >> : t \in Tags, x \in Utterances}

\* The tokens "UNK", ";", "a", "b", "z".
T_unk == <<85, 78, 75>>
T_semi == <<59>>
T_a == <<97>>
T_b == <<98>>
T_z == <<122>>

\* word2idx as the list of the known words: a word's id is its position - 1.
VocabFull == <<T_unk, T_semi, T_a, T_b, T_z>>
VocabSmall == <<T_unk, T_semi, T_a>>
Vocabs == {VocabFull, VocabSmall}

\* What the lookup does with a word it does not know.
Policies == {"unk", "raise"}

VARIABLES
    dial_history,   \* the caller's history list (the object forward mutates)
    vocab,          \* data_desc.vocab: the known words
    policy,         \* data_desc.vocab: the unknown-word policy
    status,         \* "idle" | "returned" | "raised": how the last call ended
    dialog_ids,     \* first returned value of the last call that returned
    dialog_lens,    \* second returned value
    ret_history,    \* third returned value
    pre_history,    \* the history as it was when the last call began
    user_uttr,      \* arguments of the last call
    sys_uttr,
    lookup_tokens,  \* the argument the last call passed to tokens2ids
    prev,           \* the call before the last one: its status, tokens, arguments
    attempts,       \* number of calls made
    call_log,       \* the <<user_uttr, sys_uttr>> of the calls that returned
    H0,             \* the history the caller started with
    twin            \* a second history object that starts equal to H0

vars == <<dial_history, vocab, policy, status, dialog_ids, dialog_lens,
          ret_history, pre_history, user_uttr, sys_uttr, lookup_tokens, prev,
          attempts, call_log, H0, twin>>

(***************************************************************************)
(* data_desc.vocab (outside this file)                                     *)
(***************************************************************************)

known(w) == \E i \in 1..Len(vocab) : vocab[i] = w

\* The id of one word.
w2i(w) ==
    IF known(w) THEN (CHOOSE i \in 1..Len(vocab) : vocab[i] = w) - 1
    ELSE (CHOOSE i \in 1..Len(vocab) : vocab[i] = T_unk) - 1

\* vocab.tokens2ids(tokens) fails when a word is unknown and the policy is to raise.
tokens2ids_raises(tokens) ==
    policy = "raise" /\ \E i \in 1..Len(tokens) : ~known(tokens[i])

\* vocab.tokens2ids(tokens): one id per token, in order.
tokens2ids(tokens) == [i \in 1..Len(tokens) |-> w2i(tokens[i])]

(***************************************************************************)
(* forward                                                                 *)
(***************************************************************************)

\* " ; " and " ;"
SepMid == <<32, 59, 32>>
SepEnd == <<32, 59>>

\* Context variants: no trailing delimiter; texts joined by a blank only.
Context_noTrail(h) ==
    strip(join(SepMid, [i \in 1..Len(h) |-> lower(strip(h[i][2]))]))
Context_blankJoin(h) ==
    strip(join(<<32>>, [i \in 1..Len(h) |-> lower(strip(h[i][2]))])) \o SepEnd

\* context = ' ; '.join([item[1].strip().lower() for item in dial_history]).strip() + ' ;'
Context(h) ==
    strip(join(SepMid, [i \in 1..Len(h) |-> lower(strip(h[i][2]))])) \o SepEnd

\* dialog_ids = torch.tensor(context_ids).unsqueeze(0): a batch of one row
dialogIds(context_ids) == << context_ids >>

\* A variant that counts one more than the id list holds.
dialogLens_offByOne(context_ids) == << Len(context_ids) + 1 >>

\* dialog_lens = torch.tensor(len(context_ids)).unsqueeze(0)
dialogLens(context_ids) == << Len(context_ids) >>

\* Variants of the two appends: user turn first; turns put in front.
appendTurns_userFirst(h, u, s) == Append(Append(h, <<"user", u>>), <<"sys", s>>)
appendTurns_front(h, u, s) == << <<"sys", s>>, <<"user", u>> >> \o h

\* dial_history.append(["sys", sys_uttr]); dial_history.append(["user", user_uttr])
appendTurns(h, u, s) == Append(Append(h, <<"sys", s>>), <<"user", u>>)

\* A variant of forward that appends the new turns before it builds the context.
forward_appendFirst(h, u, s) ==
    LET h2 == appendTurns(h, u, s)
        context == Context(h2)
        tokens == split(context)
        context_ids == tokens2ids(tokens)
    IN IF tokens2ids_raises(tokens)
       THEN [status |-> "raised", tokens |-> tokens,
             ids |-> <<>>, lens |-> <<>>, history |-> h2]
       ELSE [status |-> "returned", tokens |-> tokens,
             ids |-> dialogIds(context_ids), lens |-> dialogLens(context_ids),
             history |-> h2]

\* forward(dial_history, user_uttr, sys_uttr): how the call ends, what it passes to
\* the lookup, what it returns and what it leaves in the caller's list.  An
\* exception of the lookup leaves the function before the appends.
forward(h, u, s) ==
    LET context == Context(h)
        tokens == split(context)
        context_ids == tokens2ids(tokens)
    IN IF tokens2ids_raises(tokens)
       THEN [status |-> "raised", tokens |-> tokens,
             ids |-> <<>>, lens |-> <<>>, history |-> h]
       ELSE [status |-> "returned", tokens |-> tokens,
             ids |-> dialogIds(context_ids), lens |-> dialogLens(context_ids),
             history |-> appendTurns(h, u, s)]

(***************************************************************************)
(* The state machine: a caller that keeps calling forward on its history   *)
(***************************************************************************)

NoCall == [status |-> "idle", tokens |-> <<>>, user_uttr |-> <<>>,
           sys_uttr |-> <<>>, pre_history |-> <<>>]

IdleTwin(h) == [status |-> "idle", dial_history |-> h, dialog_ids |-> <<>>,
                dialog_lens |-> <<>>, user_uttr |-> <<>>, sys_uttr |-> <<>>]

Init ==
    /\ H0 \in InitHistories
    /\ dial_history = H0
    /\ vocab \in Vocabs
    /\ policy \in Policies
    /\ status = "idle"
    /\ dialog_ids = <<>>
    /\ dialog_lens = <<>>
    /\ ret_history = <<>>
    /\ pre_history = <<>>
    /\ user_uttr = <<>>
    /\ sys_uttr = <<>>
    /\ lookup_tokens = <<>>
    /\ prev = NoCall
    /\ attempts = 0
    /\ call_log = <<>>
    /\ twin = IdleTwin(H0)

\* What every call records, however it ends.
Called(u, s, r) ==
    /\ pre_history' = dial_history
    /\ user_uttr' = u
    /\ sys_uttr' = s
    /\ lookup_tokens' = r.tokens
    /\ status' = r.status
    /\ prev' = [status |-> status, tokens |-> lookup_tokens, user_uttr |-> user_uttr,
                sys_uttr |-> sys_uttr, pre_history |-> pre_history]
    /\ attempts' = attempts + 1
    /\ dial_history' = r.history

\* A call of forward that returns.
ForwardReturns(u, s) ==
    /\ attempts < MaxCalls
    /\ LET r == forward(dial_history, u, s) IN
        /\ r.status = "returned"
        /\ Called(u, s, r)
        /\ dialog_ids' = r.ids
        /\ dialog_lens' = r.lens
        /\ ret_history' = r.history
        /\ call_log' = Append(call_log, <<u, s>>)
        /\ UNCHANGED <<vocab, policy, H0, twin>>

\* A call of forward in which the vocabulary lookup raises.
ForwardRaises(u, s) ==
    /\ attempts < MaxCalls
    /\ LET r == forward(dial_history, u, s) IN
        /\ r.status = "raised"
        /\ Called(u, s, r)
        /\ UNCHANGED <<dialog_ids, dialog_lens, ret_history, call_log, vocab,
                       policy, H0, twin>>

Next ==
    \/ \E u \in UserUtterances, s \in SysUtterances : ForwardReturns(u, s)
    \/ \E u \in UserUtterances, s \in SysUtterances : ForwardRaises(u, s)

Spec == Init /\ [][Next]_vars

(***************************************************************************)
(* Two history objects with equal content, one call on each                *)
(***************************************************************************)

\* The first call on the caller's history object.
FirstForward(u, s) ==
    /\ attempts = 0
    /\ (ForwardReturns(u, s) \/ ForwardRaises(u, s))

\* The call on the second history object, with the same vocabulary.
TwinForward(u, s) ==
    /\ twin.status = "idle"
    /\ LET r == forward(twin.dial_history, u, s) IN
        twin' = [status |-> r.status, dial_history |-> r.history,
                 dialog_ids |-> r.ids, dialog_lens |-> r.lens,
                 user_uttr |-> u, sys_uttr |-> s]
    /\ UNCHANGED <<dial_history, vocab, policy, status, dialog_ids, dialog_lens,
                   ret_history, pre_history, user_uttr, sys_uttr, lookup_tokens,
                   prev, attempts, call_log, H0>>

NextPair ==
    \/ \E u \in UserUtterances, s \in SysUtterances : FirstForward(u, s)
    \/ \E u \in UserUtterances, s \in SysUtterances : TwinForward(u, s)

SpecPair == Init /\ [][NextPair]_vars

(***************************************************************************)
(* Vocabulary of the properties: text operations stated by position,       *)
(* without the recursion the implementation's primitives use               *)
(***************************************************************************)

\* The positions of s that hold a non-whitespace character.
Solid(s) == {i \in 1..Len(s) : ~isspace(s[i])}

\* s without its leading and trailing whitespace.
Trimmed(s) ==
    IF Solid(s) = {} THEN <<>>
    ELSE SubSeq(s, CHOOSE i \in Solid(s) : \A j \in Solid(s) : i <= j,
                   CHOOSE i \in Solid(s) : \A j \in Solid(s) : j <= i)

\* The lower-case counterpart of an upper-case ASCII letter; any other character itself.
Counterpart(c) == IF c \in 65..90 THEN c + 32 ELSE c

\* s with every character replaced by its counterpart.
Folded(s) == [i \in 1..Len(s) |-> Counterpart(s[i])]

\* The positions where a whitespace-separated token of s begins.
WordStarts(s) ==
    {i \in 1..Len(s) : ~isspace(s[i]) /\ (i = 1 \/ isspace(s[i - 1]))}

\* The position where the token that begins at i ends.
WordEnd(s, i) ==
    CHOOSE j \in i..Len(s) :
        /\ \A k \in i..j : ~isspace(s[k])
        /\ j = Len(s) \/ isspace(s[j + 1])

\* The whitespace-separated tokens of s, in order.
Words(s) ==
    LET starts == WordStarts(s) IN
    [n \in 1..Cardinality(starts) |->
        LET b == CHOOSE i \in starts : Cardinality({k \in starts : k < i}) = n - 1
        IN SubSeq(s, b, WordEnd(s, b))]

RECURSIVE JoinedTexts(_)
\* The texts of h, each trimmed and folded, with " ; " between neighbours.
JoinedTexts(h) ==
    IF h = <<>> THEN <<>>
    ELSE IF Len(h) = 1 THEN Folded(Trimmed(h[1][2]))
    ELSE JoinedTexts(SubSeq(h, 1, Len(h) - 1)) \o <<32, 59, 32>>
            \o Folded(Trimmed(h[Len(h)][2]))

RECURSIVE Flat(_)
\* The characters of a token sequence, token after token.
Flat(ws) == IF ws = <<>> THEN <<>> ELSE Head(ws) \o Flat(Tail(ws))

RECURSIVE EntryTokens(_)
\* For each entry of h in order: the tokens of its folded text, then one ";".
EntryTokens(h) ==
    IF h = <<>> THEN <<>>
    ELSE EntryTokens(SubSeq(h, 1, Len(h) - 1))
            \o Words(Folded(h[Len(h)][2])) \o << <<59>> >>

RECURSIVE EntryChars(_)
\* For each entry of h in order: the folded non-whitespace characters of its
\* text, then one ";".
EntryChars(h) ==
    IF h = <<>> THEN <<>>
    ELSE EntryChars(SubSeq(h, 1, Len(h) - 1))
            \o SelectSeq(Folded(h[Len(h)][2]), LAMBDA c : ~isspace(c)) \o <<59>>

\* Some text of h holds an upper-case letter.
HasUpper(h) ==
    \E i \in 1..Len(h) : \E j \in 1..Len(h[i][2]) : h[i][2][j] \in 65..90

(***************************************************************************)
(* Properties                                                              *)
(***************************************************************************)

\* C1: a call that returns leaves the caller's history, which is also the third
\* returned value, equal to the history before the call followed by the entry
\* <<"sys", sys_uttr>> and then the entry <<"user", user_uttr>>, texts verbatim.
C1_HistoryAppended ==
    status = "returned" =>
        /\ dial_history = pre_history \o << <<"sys", sys_uttr>>, <<"user", user_uttr>> >>
        /\ ret_history = dial_history

\* C1 witness: a call returned whose texts carry whitespace and upper case.
C1_Witness ==
    /\ status = "returned"
    /\ sys_uttr = U_aB
    /\ user_uttr = U_A
    /\ Len(pre_history) >= 1

\* C2: two calls on equal histories with the same vocabulary that both return
\* give the same ids and the same length, whatever their utterances.
C2_UtterancesDoNotMatter ==
    (status = "returned" /\ twin.status = "returned") =>
        /\ dialog_ids = twin.dialog_ids
        /\ dialog_lens = twin.dialog_lens

\* C2 witness: both calls returned, with different user and system utterances.
C2_Witness ==
    /\ status = "returned"
    /\ twin.status = "returned"
    /\ user_uttr # twin.user_uttr
    /\ sys_uttr # twin.sys_uttr
    /\ Len(dialog_ids[1]) >= 2

\* C3: the ids are, one for one and in order, the vocabulary ids of the
\* whitespace-separated tokens of (joined texts, trimmed) + " ;", and there is
\* one id more than the joined history text has tokens.
C3_IdsFollowContextTokens ==
    status = "returned" =>
        LET joined == Trimmed(JoinedTexts(pre_history))
            w == Words(joined \o <<32, 59>>)
        IN /\ Len(dialog_ids[1]) = Len(w)
           /\ \A i \in 1..Len(w) : dialog_ids[1][i] = w2i(w[i])
           /\ Len(dialog_ids[1]) = Len(Words(joined)) + 1

\* C3 witness: a call returned on a history of three turns with several different ids.
C3_Witness ==
    /\ status = "returned"
    /\ Len(pre_history) = 3
    /\ Cardinality({dialog_ids[1][i] : i \in 1..Len(dialog_ids[1])}) >= 3

\* C4: the returned length is the number of returned ids.
C4_LengthIsNumberOfIds ==
    status = "returned" =>
        /\ Len(dialog_lens) = 1
        /\ Len(dialog_ids) = 1
        /\ dialog_lens[1] = Len(dialog_ids[1])

\* C4 witness: a call returned five or more ids.
C4_Witness ==
    /\ status = "returned"
    /\ dialog_lens[1] >= 5

\* C5: a call on the empty history looks up the single token ";", and, the
\* vocabulary knowing ";", returns its id with length 1 and leaves exactly the
\* two new turns in the history.
C5_EmptyHistory ==
    (status # "idle" /\ pre_history = <<>>) =>
        /\ lookup_tokens = << T_semi >>
        /\ known(T_semi) => status = "returned"
        /\ status = "returned" =>
            /\ dialog_ids = << << w2i(T_semi) >> >>
            /\ dialog_lens = << 1 >>
            /\ dial_history = << <<"sys", sys_uttr>>, <<"user", user_uttr>> >>

\* C5 witness: a call on the empty history returned.
C5_Witness ==
    /\ status = "returned"
    /\ pre_history = <<>>
    /\ Len(dial_history) = 2

\* The lower-cased tokens of the turns of the call before the last one:
\* system turn, ";", user turn, ";".
PrevTurnTokens ==
    Words(Folded(prev.sys_uttr)) \o << T_semi >>
        \o Words(Folded(prev.user_uttr)) \o << T_semi >>

\* C6 as stated: of two consecutive calls on one history, the second looks up
\* the first's tokens followed by the tokens of the first's turns.
C6_AsStated ==
    (status # "idle" /\ prev.status = "returned") =>
        lookup_tokens = prev.tokens \o PrevTurnTokens

\* C6 amended: so it is when the history was not empty before the first call;
\* when it was empty the second call looks up the tokens of the first's turns only.
C6_NextCallSeesTurns ==
    (status # "idle" /\ prev.status = "returned") =>
        lookup_tokens =
            (IF prev.pre_history = <<>> THEN <<>> ELSE prev.tokens) \o PrevTurnTokens

\* C6 witness: two consecutive calls, the first on a non-empty history and
\* with turns of several tokens and upper case.
C6_Witness ==
    /\ status # "idle"
    /\ prev.status = "returned"
    /\ prev.pre_history # <<>>
    /\ prev.sys_uttr = U_aB
    /\ prev.user_uttr = U_semiZ

\* C7: no token passed to the lookup holds an upper-case letter, and the
\* characters of the tokens are those of the history texts, upper-case letters
\* replaced by their lower-case counterparts and all others unchanged.
C7_CaseFolding ==
    status # "idle" =>
        /\ \A i \in 1..Len(lookup_tokens) :
               \A j \in 1..Len(lookup_tokens[i]) : lookup_tokens[i][j] \notin 65..90
        /\ pre_history # <<>> => Flat(lookup_tokens) = EntryChars(pre_history)

\* C7 witness: a call on a history that holds upper-case letters.
C7_Witness ==
    /\ status # "idle"
    /\ HasUpper(pre_history)
    /\ Len(pre_history) >= 2

\* C8: when the vocabulary lookup fails the call raises, and the history is as
\* it was before the call.
C8_FailureLeavesHistory ==
    /\ (status # "idle" /\ tokens2ids_raises(lookup_tokens)) => status = "raised"
    /\ status = "raised" => dial_history = pre_history

\* C8 witness: a call raised on a history an earlier call had extended.
C8_Witness ==
    /\ status = "raised"
    /\ Len(call_log) >= 1
    /\ Len(dial_history) >= 2

\* C9: after k calls that returned, the history has Len(H0) + 2k entries, begins
\* with H0, and holds the turns of the calls in call order, system turn first.
C9_AppendOnlyInCallOrder ==
    /\ Len(dial_history) = Len(H0) + 2 * Len(call_log)
    /\ SubSeq(dial_history, 1, Len(H0)) = H0
    /\ \A k \in 1..Len(call_log) :
        /\ dial_history[Len(H0) + 2 * k - 1] = <<"sys", call_log[k][2]>>
        /\ dial_history[Len(H0) + 2 * k] = <<"user", call_log[k][1]>>

\* C9 witness: two calls with different turns returned on a non-empty history.
C9_Witness ==
    /\ Len(call_log) >= 2
    /\ call_log[1] # call_log[2]
    /\ H0 # <<>>

\* C10: the looked-up token sequence is never empty and ends with ";"; on a
\* history of n >= 1 entries it is each entry's lower-cased tokens followed by
\* one ";"; a single entry of blank text gives what the empty history gives;
\* the returned length is at least 1.
C10_DelimiterPerEntry ==
    status # "idle" =>
        /\ lookup_tokens # <<>>
        /\ lookup_tokens[Len(lookup_tokens)] = T_semi
        /\ pre_history # <<>> => lookup_tokens = EntryTokens(pre_history)
        /\ (Len(pre_history) = 1 /\ Solid(pre_history[1][2]) = {}) =>
               lookup_tokens = << T_semi >>
        /\ pre_history = <<>> => lookup_tokens = << T_semi >>
        /\ status = "returned" => dialog_lens[1] >= 1

\* C10 witness: a call on a history of three entries whose middle text is blank.
C10_Witness ==
    /\ status = "returned"
    /\ Len(pre_history) = 3
    /\ Solid(pre_history[2][2]) = {}
    /\ Solid(pre_history[1][2]) # {}

====
